---- MODULE Spec2Model ----
(***************************************************************************)
(* A model of adafruit_dhtlib.py: the DHTBase decoder for DHT11 / DHT22    *)
(* sensors.  One decoder instance, one (serialised) caller, the monotonic  *)
(* clock and the sensor driving the data line.                             *)
(*                                                                         *)
(* Time is in milliseconds.  Stored values are exact rationals <<n, d>>    *)
(* (n / d); None is the empty tuple.                                       *)
(***************************************************************************)
EXTENDS Integers, Sequences, FiniteSets, TLC

VARIABLES
    dht11,          \* self._dht11
    last_called,    \* self._last_called (ms)
    humidity,       \* self._humidity
    temperature,    \* self._temperature
    now,            \* time.monotonic() (ms)
    pc,             \* where the current call stands: idle, capture, decode, checksum
    op,             \* the operation called last: measure, temperature, humidity
    tmono,          \* _get_pulses: tmono
    held,           \* the PulseIn object exists (inside the with block)
    pulse_in,       \* the PulseIn buffer
    wire,           \* pulses the sensor has still to send on the data line
    pulses,         \* measure: pulses
    bites,          \* measure: bites
    result,         \* how the last call ended: none, ok, insufficient, checksum
    retval,         \* what the last call returned
    captures,       \* trigger-and-capture rounds of the current (last) call
    stored_ok,      \* history: the stored reading was decoded from a capture whose checksum matched
    at_entry,       \* history: <<humidity, temperature>> when the current (last) call was entered
    called_at,      \* history: the clock when the current (last) call was entered
    prev_result,    \* history: how the call before the current (last) one ended
    has_failed      \* history: some call has ended in an error

vars == <<dht11, last_called, humidity, temperature, now, pc, op, tmono, held,
          pulse_in, wire, pulses, bites, result, retval, captures, stored_ok,
          at_entry, called_at, prev_result, has_failed>>

----------------------------------------------------------------------------
(* Bounds of the model *)

\* the clock stops advancing here
MaxTime == 2500
\* granularity of the clock
TickMs == 250
\* no call is made after this time in the specification for termination
LiveMaxTime == 1000

(* Program constants *)

hiLevel == 51
RateLimitMs == 500
CaptureTimeoutMs == 500
MinPulses == 80
PulseInMaxLen == 81
ByteStride == 16
ChecksumMask == 255

None == <<>>

trig_wait(is11) == IF is11 THEN 18000 ELSE 1000

----------------------------------------------------------------------------
(* Integer bit operations, as Python computes them on non-negative ints *)

RECURSIVE BitOr(_, _)
BitOr(a, b) ==
    IF a = 0 THEN b
    ELSE IF b = 0 THEN a
    ELSE (IF (a % 2 = 1) \/ (b % 2 = 1) THEN 1 ELSE 0) + 2 * BitOr(a \div 2, b \div 2)

RECURSIVE BitAnd(_, _)
BitAnd(a, b) ==
    IF a = 0 \/ b = 0 THEN 0
    ELSE (IF (a % 2 = 1) /\ (b % 2 = 1) THEN 1 ELSE 0) + 2 * BitAnd(a \div 2, b \div 2)

Shl(a, n) == a * (2 ^ n)

----------------------------------------------------------------------------
(* _pulses_to_binary.  Python indexes from 0, sequences from 1. *)

ClassifyGE(d) == IF d >= hiLevel THEN 1 ELSE 0

Classify(d) == IF d > hiLevel THEN 1 ELSE 0

RECURSIVE PulsesLoop(_, _, _, _, _)
PulsesLoop(ps, bit_inx, stop, binary, hi_sig) ==
    IF bit_inx >= stop THEN binary
    ELSE PulsesLoop(ps, bit_inx + 1, stop,
                    IF hi_sig THEN BitOr(Shl(binary, 1), Classify(ps[bit_inx + 1]))
                              ELSE binary,
                    ~hi_sig)

pulses_to_binary_hi_first(ps, start, stop) == PulsesLoop(ps, start, stop, 0, TRUE)

pulses_to_binary(ps, start, stop) == PulsesLoop(ps, start, stop, 0, FALSE)

RECURSIVE BitesFrom(_, _)
BitesFrom(ps, byte_start) ==
    IF byte_start >= MinPulses THEN <<>>
    ELSE <<pulses_to_binary(ps, byte_start, byte_start + ByteStride)>>
         \o BitesFrom(ps, byte_start + ByteStride)

Bites(ps) == BitesFrom(ps, 0)

(* measure: the length test, the fields and the checksum *)

FullBufferGT(ps) == Len(ps) > MinPulses

FullBuffer(ps) == Len(ps) >= MinPulses

Ratio(n, d) == <<n, d>>

HumiditySwapped(is11, bs) ==
    IF is11 THEN Ratio(bs[1], 1) ELSE Ratio(BitOr(Shl(bs[2], 8), bs[1]), 10)

Humidity(is11, bs) ==
    IF is11 THEN Ratio(bs[1], 1) ELSE Ratio(BitOr(Shl(bs[1], 8), bs[2]), 10)

TemperatureWrongByte(is11, bs) ==
    IF is11 THEN Ratio(bs[2], 1) ELSE Ratio(BitOr(Shl(bs[3], 8), bs[4]), 10)

TemperatureSigned(is11, bs) ==
    IF is11 THEN Ratio(bs[3], 1)
    ELSE IF bs[3] >= 128 THEN Ratio(0 - BitOr(Shl(bs[3] - 128, 8), bs[4]), 10)
    ELSE Ratio(BitOr(Shl(bs[3], 8), bs[4]), 10)

Temperature(is11, bs) ==
    IF is11 THEN Ratio(bs[3], 1) ELSE Ratio(BitOr(Shl(bs[3], 8), bs[4]), 10)

chk_sum(bs) == bs[1] + bs[2] + bs[3] + bs[4]

ChecksumOKNoMask(bs) == chk_sum(bs) = bs[5]

ChecksumOK(bs) == BitAnd(chk_sum(bs), ChecksumMask) = bs[5]

----------------------------------------------------------------------------
(* The sensor: what it may put on the data line after a trigger *)

SensorBytes ==
    { <<0, 130, 0, 250, 124>>,      \* checksum matches
      <<0, 130, 0, 250, 123>>,      \* checksum does not match
      <<55, 0, 26, 0, 81>>,         \* checksum matches
      <<128, 1, 128, 2, 3>>,        \* the sum wraps past 255; checksum matches
      <<1, 2, 3, 4, 11>> }          \* checksum does not match

\* durations: the low pulses, the high pulse of a 0 bit and of a 1 bit (at even
\* and at odd bit positions), the 81st pulse
SensorTimings ==
    { [low |-> 50, zero |-> <<26, 28>>, one |-> <<70, 70>>, tail |-> 45],
      [low |-> 54, zero |-> <<50, 51>>, one |-> <<52, 65535>>, tail |-> 65535] }

BitOf(b, p) == (b \div (2 ^ p)) % 2

Frame(bs, t) ==
    [i \in 1..PulseInMaxLen |->
        IF i = PulseInMaxLen THEN t.tail
        ELSE IF i % 2 = 1 THEN t.low
        ELSE LET j == (i \div 2) - 1        \* the bit this high pulse carries, 0..39
             IN  IF BitOf(bs[(j \div 8) + 1], 7 - (j % 8)) = 1
                 THEN t.one[(j % 2) + 1] ELSE t.zero[(j % 2) + 1]]

Frames == { Frame(bs, t) : bs \in SensorBytes, t \in SensorTimings }

\* the buffer lengths at which the model looks at the capture
ArrivalMarks == {40, 79, 80, 81}

Ops == {"measure", "temperature", "humidity"}

----------------------------------------------------------------------------
Init ==
    /\ dht11 \in BOOLEAN
    /\ last_called = 0
    /\ humidity = None
    /\ temperature = None
    /\ now = 0
    /\ pc = "idle"
    /\ op = "measure"
    /\ tmono = 0
    /\ held = FALSE
    /\ pulse_in = <<>>
    /\ wire = <<>>
    /\ pulses = <<>>
    /\ bites = <<>>
    /\ result = "none"
    /\ retval = None
    /\ captures = 0
    /\ stored_ok = FALSE
    /\ at_entry = <<None, None>>
    /\ called_at = 0
    /\ prev_result = "none"
    /\ has_failed = FALSE

\* the value a call hands back on normal return
Returned(o, h, t) ==
    IF o = "temperature" THEN t ELSE IF o = "humidity" THEN h ELSE None

\* the monotonic clock advances
Tick ==
    /\ now + TickMs <= MaxTime
    /\ now' = now + TickMs
    /\ UNCHANGED <<dht11, last_called, humidity, temperature, pc, op, tmono, held,
                   pulse_in, wire, pulses, bites, result, retval, captures, stored_ok,
                   at_entry, called_at, prev_result, has_failed>>

ThrottledLT == ~(now - last_called >= RateLimitMs)

ThrottledInverted == now - last_called > RateLimitMs

Throttled == ~(now - last_called > RateLimitMs)

StampStale == last_called

\* the value line 139 writes to _last_called
Stamp == now

\* measure() is entered, directly or from a property: the rate limit, then
\* _get_pulses up to resume(trig_wait)
Call(o) ==
    /\ pc = "idle"
    /\ now <= MaxTime
    /\ op' = o
    /\ pulses' = <<>>
    /\ bites' = <<>>
    /\ IF Throttled
       THEN /\ result' = "ok"
            /\ retval' = Returned(o, humidity, temperature)
            /\ captures' = 0
            /\ UNCHANGED <<last_called, pc, tmono, held, pulse_in, wire>>
       ELSE /\ last_called' = Stamp
            /\ tmono' = now
            /\ held' = TRUE
            /\ pulse_in' = <<>>
            /\ wire' \in Frames
            /\ captures' = 1
            /\ pc' = "capture"
            /\ result' = "none"
            /\ retval' = None
    /\ at_entry' = <<humidity, temperature>>
    /\ called_at' = now
    /\ prev_result' = result
    /\ UNCHANGED <<dht11, humidity, temperature, now, stored_ok, has_failed>>

\* the sensor's pulses reach the PulseIn buffer
PulseArrival ==
    /\ pc = "capture"
    /\ \E m \in ArrivalMarks :
          /\ m > Len(pulse_in)
          /\ m - Len(pulse_in) <= Len(wire)
          /\ pulse_in' = pulse_in \o SubSeq(wire, 1, m - Len(pulse_in))
          /\ wire' = SubSeq(wire, m - Len(pulse_in) + 1, Len(wire))
    /\ UNCHANGED <<dht11, last_called, humidity, temperature, now, pc, op, tmono, held,
                   pulses, bites, result, retval, captures, stored_ok,
                   at_entry, called_at, prev_result, has_failed>>

WaitOverNoTimeout == Len(pulse_in) >= MinPulses

\* _get_pulses: the two breaks of the wait loop
WaitOver ==
    \/ Len(pulse_in) >= MinPulses
    \/ now - tmono > CaptureTimeoutMs

\* _get_pulses: the loop that moves the (paused) buffer into pulses
RECURSIVE Drain(_, _)
Drain(buf, out) ==
    IF Len(buf) = 0 THEN out ELSE Drain(Tail(buf), Append(out, Head(buf)))

HeldAfterWithLeak == held

\* the PulseIn object once the with block is left
HeldAfterWith == FALSE

\* _get_pulses: the wait loop ends; pause, drain the buffer, resume, leave the with block
CaptureExit ==
    /\ pc = "capture"
    /\ WaitOver
    /\ pulses' = Drain(pulse_in, <<>>)
    /\ pulse_in' = <<>>
    /\ wire' = <<>>
    /\ held' = HeldAfterWith
    /\ pc' = "decode"
    /\ UNCHANGED <<dht11, last_called, humidity, temperature, now, op, tmono,
                   bites, result, retval, captures, stored_ok,
                   at_entry, called_at, prev_result, has_failed>>

DecodeRetry ==
    /\ pc = "decode"
    /\ IF FullBuffer(pulses)
       THEN /\ bites' = Bites(pulses)
            /\ humidity' = Humidity(dht11, bites')
            /\ temperature' = Temperature(dht11, bites')
            /\ stored_ok' = ChecksumOK(bites')
            /\ pc' = "checksum"
            /\ UNCHANGED <<result, retval, held, wire, captures, tmono>>
       ELSE /\ pc' = "capture"
            /\ held' = TRUE
            /\ wire' \in Frames
            /\ captures' = captures + 1
            /\ tmono' = now
            /\ UNCHANGED <<result, retval, bites, humidity, temperature, stored_ok>>
    /\ UNCHANGED <<dht11, last_called, now, op, pulse_in, pulses,
                   at_entry, called_at, prev_result, has_failed>>

\* measure: the length test, the bytes and the two fields
Decode ==
    /\ pc = "decode"
    /\ IF FullBuffer(pulses)
       THEN /\ bites' = Bites(pulses)
            /\ humidity' = Humidity(dht11, bites')
            /\ temperature' = Temperature(dht11, bites')
            /\ stored_ok' = ChecksumOK(bites')
            /\ pc' = "checksum"
            /\ UNCHANGED <<result, retval>>
       ELSE /\ result' = "insufficient"
            /\ retval' = None
            /\ pc' = "idle"
            /\ UNCHANGED <<bites, humidity, temperature, stored_ok>>
    /\ has_failed' = (has_failed \/ ~FullBuffer(pulses))
    /\ UNCHANGED <<dht11, last_called, now, op, tmono, held, pulse_in, wire, pulses, captures,
                   at_entry, called_at, prev_result>>

\* measure: the checksum, and the return to the caller
Checksum ==
    /\ pc = "checksum"
    /\ IF ChecksumOK(bites)
       THEN /\ result' = "ok"
            /\ retval' = Returned(op, humidity, temperature)
       ELSE /\ result' = "checksum"
            /\ retval' = None
    /\ pc' = "idle"
    /\ has_failed' = (has_failed \/ ~ChecksumOK(bites))
    /\ UNCHANGED <<dht11, last_called, humidity, temperature, now, op, tmono, held,
                   pulse_in, wire, pulses, bites, captures, stored_ok,
                   at_entry, called_at, prev_result>>

Next ==
    \/ Tick
    \/ \E o \in Ops : Call(o)
    \/ PulseArrival
    \/ CaptureExit
    \/ Decode
    \/ Checksum

Spec == Init /\ [][Next]_vars

\* The specification for termination: calls are made until LiveMaxTime, and
\* the clock goes on past it for as long as a capture waits for its timeout.
LiveTick ==
    /\ now + TickMs <= LiveMaxTime
    /\ Tick

LiveCall ==
    /\ now <= LiveMaxTime
    /\ \E o \in Ops : Call(o)

WaitTick ==
    /\ pc = "capture"
    /\ now + TickMs > LiveMaxTime
    /\ ~(now - tmono > CaptureTimeoutMs)
    /\ now' = now + TickMs
    /\ UNCHANGED <<dht11, last_called, humidity, temperature, pc, op, tmono, held,
                   pulse_in, wire, pulses, bites, result, retval, captures, stored_ok,
                   at_entry, called_at, prev_result, has_failed>>

NextLive ==
    \/ LiveTick
    \/ LiveCall
    \/ PulseArrival
    \/ CaptureExit
    \/ Decode
    \/ Checksum
    \/ WaitTick

\* the clock keeps advancing and the interpreter keeps running the call; the
\* sensor is under no obligation to send anything
LiveSpec ==
    /\ Init
    /\ [][NextLive]_vars
    /\ WF_vars(LiveTick)
    /\ WF_vars(WaitTick)
    /\ WF_vars(CaptureExit)
    /\ WF_vars(Decode)
    /\ WF_vars(Checksum)

----------------------------------------------------------------------------
(* Vocabulary of the properties *)

Properties == {"temperature", "humidity"}
Errors == {"insufficient", "checksum"}
Reading == <<humidity, temperature>>
\* the last call has returned (or raised) and no other has begun
CallEnded == pc = "idle" /\ result # "none"
\* the last call was not throttled and has returned (or raised)
AttemptDone == CallEnded /\ captures = 1
\* some call has got past the rate limit (those happen after 500 ms only)
Attempted == last_called > 0
AnyCall == \E o \in Ops : Call(o)

----------------------------------------------------------------------------
\* C1: a measure() call that fails with a checksum mismatch leaves the stored
\* reading (humidity and temperature) exactly as it was when the call was
\* entered, and the stored reading only ever holds values decoded from a
\* capture whose checksum matched.
C1_ChecksumFailureKeepsReading ==
    /\ (CallEnded /\ result = "checksum") => Reading = at_entry
    /\ (pc = "idle" /\ Reading # <<None, None>>) => stored_ok

\* C2: every value that temperature or humidity returns without raising was
\* decoded from a capture whose checksum matched.
C2_ReturnedValuesAreValidated ==
    (CallEnded /\ op \in Properties /\ result = "ok" /\ retval # None) => stored_ok

\* C3: a call of the temperature or humidity property that does not raise
\* returns a number, never None.
C3_PropertyNeverReturnsNone ==
    (CallEnded /\ op \in Properties /\ result = "ok") => retval # None

\* C4: a non-throttled measure() whose capture has fewer than 80 pulses fails
\* with the insufficient-data error and leaves the stored reading as it was;
\* a capture of 80 or more pulses never gives that error.
C4_InsufficientData ==
    AttemptDone =>
        /\ (Len(pulses) < 80) <=> (result = "insufficient")
        /\ (Len(pulses) < 80) => Reading = at_entry

C4_Witness ==
    /\ AttemptDone
    /\ Len(pulses) = 79
    /\ result = "insufficient"
    /\ humidity # None
    /\ Reading = at_entry

\* C5: a non-throttled measure() whose capture has at least 80 pulses and
\* decodes to bytes [a,b,c,d,e] succeeds if and only if (a+b+c+d) mod 256 = e,
\* and otherwise fails with the checksum error.
C5_ChecksumDecides ==
    (AttemptDone /\ Len(pulses) >= 80) =>
        /\ Len(bites) = 5
        /\ (result = "ok") <=> ((bites[1] + bites[2] + bites[3] + bites[4]) % 256 = bites[5])
        /\ result \in {"ok", "checksum"}

C5_Witness ==
    /\ AttemptDone
    /\ bites = <<128, 1, 128, 2, 3>>
    /\ result = "ok"

\* C6: a measure() call made less than 500 ms after the previous attempt is a
\* no-op: no trigger, no capture, it returns success, and the stored reading
\* and last_measurement_time stay as they were.
C6_ThrottledCallIsNoOp ==
    [][(AnyCall /\ now - last_called < 500) =>
          /\ pc' = "idle"
          /\ result' = "ok"
          /\ captures' = 0
          /\ held' = FALSE
          /\ pulse_in' = pulse_in
          /\ Reading' = Reading
          /\ last_called' = last_called]_vars

\* a throttled call has returned, less than 500 ms after an attempt that failed
C6_Witness ==
    /\ CallEnded
    /\ captures = 0
    /\ Attempted
    /\ called_at - last_called < 500
    /\ prev_result \in Errors
    /\ result = "ok"

\* C7: of two measure() calls made within 500 ms of each other, the second
\* performs no new capture and ends as the first did: the same stored reading
\* if the first succeeded, the same error if the first failed.
C7_SecondCallRepeatsFirst ==
    [][(AnyCall /\ result # "none" /\ now - called_at < 500) =>
          /\ captures' = 0
          /\ result' = result
          /\ (result = "ok" => Reading' = Reading)]_vars

\* C7 amended: a measure() call made less than 500 ms after a call that was a
\* non-throttled attempt performs no new capture, returns success whether
\* that attempt succeeded or failed, and leaves the stored reading and the
\* timestamp as the attempt left them.
C7_CallAfterAttemptKeepsState ==
    [][(AnyCall /\ AttemptDone /\ now - called_at < 500) =>
          /\ pc' = "idle"
          /\ captures' = 0
          /\ result' = "ok"
          /\ Reading' = Reading
          /\ last_called' = last_called
          /\ retval' = Returned(op', humidity, temperature)]_vars

\* the second call has returned, less than 500 ms after a first that failed
C7_Witness ==
    /\ CallEnded
    /\ captures = 0
    /\ prev_result = "checksum"
    /\ called_at - last_called < 500
    /\ called_at > last_called
    /\ result = "ok"

\* C8 as stated: after an attempt, measure() is throttled exactly when less
\* than 500 ms have elapsed; at 500 ms or more it starts a new attempt.
C8_ThrottledIffLessThan500 ==
    [][(AnyCall /\ Attempted) =>
          ((pc' = "idle" /\ captures' = 0) <=> (now - last_called < 500))]_vars

\* C8 amended: after an attempt, measure() is throttled exactly when 500 ms or
\* less have elapsed (exactly 500 ms included); when more than 500 ms have
\* elapsed it starts a new trigger-and-capture attempt.
C8_ThrottledIffAtMost500 ==
    [][(AnyCall /\ Attempted) =>
          /\ (pc' = "idle" /\ captures' = 0 /\ held' = FALSE) <=> (now - last_called <= 500)
          /\ (pc' = "capture" /\ captures' = 1 /\ held' = TRUE) <=> (now - last_called > 500)]_vars

\* a call made exactly 500 ms after an attempt has been throttled
C8_Witness ==
    /\ CallEnded
    /\ Attempted
    /\ captures = 0
    /\ called_at - last_called = 500

\* C9: a non-throttled measure() sets last_measurement_time to the current
\* time before the capture begins; the rest of the call, failure included,
\* leaves it alone; so a retry less than 500 ms after a failed attempt is
\* throttled and performs no capture.
C9_StampSurvivesFailure ==
    [][/\ (AnyCall /\ pc' = "capture") => last_called' = now
       /\ (pc # "idle") => last_called' = last_called
       /\ (pc # "idle" /\ pc' = "idle" /\ result' \in Errors) => last_called' = called_at
       /\ (AnyCall /\ result \in Errors /\ now - called_at < 500) =>
              (pc' = "idle" /\ captures' = 0 /\ held' = FALSE)]_vars

\* the retry after a failed attempt, less than 500 ms later, has been throttled
C9_Witness ==
    /\ CallEnded
    /\ prev_result \in Errors
    /\ captures = 0
    /\ called_at > last_called
    /\ called_at - last_called < 500

\* C10: a high pulse of duration d is classified as bit 1 if and only if
\* d > 51: in every decoded capture, bit j of byte k is 1 exactly when the
\* high pulse that carries it lasted more than 51 microseconds.
C10_ThresholdAbove51 ==
    (Len(bites) = 5) =>
        \A k \in 0..4 : \A j \in 0..7 :
            (BitOf(bites[k + 1], 7 - j) = 1) <=> (pulses[16 * k + 2 * j + 2] > 51)

\* a decoded capture holds high pulses of 50, 51 (bit 0) and 52 (bit 1)
C10_Witness ==
    /\ Len(bites) = 5
    /\ \E i, j, k \in 1..40 :
          /\ pulses[2 * i] = 50
          /\ pulses[2 * j] = 51
          /\ pulses[2 * k] = 52

----------------------------------------------------------------------------
\* a capture with its low pulses (even Python indices) all set to v and
\* whatever follows the 80th pulse dropped
WithLows(ps, v) == [i \in 1..80 |-> IF i % 2 = 1 THEN v ELSE ps[i]]
\* the byte whose bits, most significant first, are the classifications of the
\* high pulses at Python indices 16k+1, 16k+3, ..., 16k+15
HighByte(ps, k) ==
    LET b(j) == IF ps[16 * k + 2 * j + 2] > 51 THEN 1 ELSE 0
    IN  128 * b(0) + 64 * b(1) + 32 * b(2) + 16 * b(3) + 8 * b(4) + 4 * b(5) + 2 * b(6) + b(7)

\* C11: for a capture of at least 80 pulses, decoded byte k is the 8-bit value
\* whose bits, most significant first, are the classifications of the pulses
\* at indices 16k+1, 16k+3, ..., 16k+15; the low pulses and any pulse at index
\* 80 or beyond have no effect on the decoded bytes.
C11_BytesFromHighPulses ==
    (Len(bites) = 5) =>
        /\ Len(pulses) >= 80
        /\ \A k \in 0..4 : bites[k + 1] = HighByte(pulses, k)
        /\ Bites(WithLows(pulses, 0)) = bites
        /\ Bites(WithLows(pulses, 65535)) = bites

\* an 81-pulse capture whose low pulses are longer than the threshold
C11_Witness ==
    /\ bites = <<0, 130, 0, 250, 124>>
    /\ Len(pulses) = 81
    /\ pulses[1] = 54
    /\ pulses[81] = 65535

\* C12: after a successful measure() on a DHT22 whose capture decodes to bytes
\* b0..b4, the stored humidity is (256*b0 + b1)/10 and the stored temperature
\* is (256*b2 + b3)/10; bytes [0,130,0,250,124] give 13.0 and 25.0.
C12_DHT22Scaling ==
    (AttemptDone /\ result = "ok" /\ ~dht11) =>
        /\ humidity = <<256 * bites[1] + bites[2], 10>>
        /\ temperature = <<256 * bites[3] + bites[4], 10>>
        /\ (bites = <<0, 130, 0, 250, 124>>) =>
               (humidity = <<130, 10>> /\ temperature = <<250, 10>>)

C12_Witness ==
    /\ AttemptDone
    /\ result = "ok"
    /\ ~dht11
    /\ bites = <<128, 1, 128, 2, 3>>
    /\ humidity = <<32769, 10>>
    /\ temperature = <<32770, 10>>

\* C13: after a successful measure() on a DHT11 whose capture decodes to bytes
\* b0..b4, the stored humidity is b0 and the stored temperature is b2, as
\* unscaled integers; b1 and b3 play no part in the stored values.
C13_DHT11Fields ==
    (AttemptDone /\ result = "ok" /\ dht11) =>
        /\ humidity = <<bites[1], 1>>
        /\ temperature = <<bites[3], 1>>

\* a DHT11 reading stored from a capture whose b1 and b3 are not zero
C13_Witness ==
    /\ AttemptDone
    /\ result = "ok"
    /\ dht11
    /\ bites = <<128, 1, 128, 2, 3>>
    /\ humidity = <<128, 1>>
    /\ temperature = <<128, 1>>

----------------------------------------------------------------------------
\* C14: the PulseIn object is held only during the trigger-and-capture step:
\* whenever measure() has returned (success, insufficient data, a capture
\* timeout included, or checksum error) it has been released, and it is never
\* held while the decoder is idle between calls.
C14_ResourceHeldOnlyInCapture ==
    /\ held <=> (pc = "capture")
    /\ (pc = "idle") => (~held /\ pulse_in = <<>>)

\* a call has ended in a capture timeout and the PulseIn object is released
C14_Witness ==
    /\ CallEnded
    /\ result = "insufficient"
    /\ now - called_at > 500
    /\ ~held

\* the reading that bytes b decode to
FieldsOf(is11, b) ==
    IF is11 THEN << <<b[1], 1>>, <<b[3], 1>> >>
    ELSE << <<256 * b[1] + b[2], 10>>, <<256 * b[3] + b[4], 10>> >>
SumMatches(b) == (b[1] + b[2] + b[3] + b[4]) % 256 = b[5]

\* C15: a failure is never fatal: once a call has failed, a later call made
\* outside the rate-limit window does attempt a capture, and when that
\* capture has at least 80 pulses and a matching checksum the call returns
\* success and stores the reading decoded from it.
C15_FailureIsNotFatal ==
    /\ [][(has_failed /\ AnyCall /\ now - last_called > 500) =>
             (pc' = "capture" /\ captures' = 1)]_vars
    /\ []((has_failed /\ AttemptDone /\ Len(pulses) >= 80 /\ SumMatches(bites)) =>
             (result = "ok" /\ Reading = FieldsOf(dht11, bites)))

\* a call that failed, and the next call succeeding with a new reading
C15_Witness ==
    /\ AttemptDone
    /\ prev_result \in Errors
    /\ result = "ok"
    /\ Reading = FieldsOf(dht11, bites)
    /\ Reading # at_entry

----------------------------------------------------------------------------
\* C16: between operations the stored humidity and temperature are either
\* both absent or both present and decoded from the same capture; no step of
\* a measure() call updates one of them without the other.
C16_FieldsStoredTogether ==
    /\ [](pc = "idle" =>
            \/ Reading = <<None, None>>
            \/ \E b \in SensorBytes : Reading = FieldsOf(dht11, b))
    /\ [][(Reading' # Reading) =>
             (Len(pulses) >= 80 /\ Reading' = FieldsOf(dht11, bites'))]_vars

\* a second reading has replaced an earlier one, both fields changing
C16_Witness ==
    /\ AttemptDone
    /\ at_entry[1] # None
    /\ humidity # at_entry[1]
    /\ temperature # at_entry[2]
    /\ Reading = FieldsOf(dht11, bites)

C18_AtMostOneCapture ==
    /\ [](captures \in {0, 1})
    /\ [][/\ AnyCall => (captures' = IF now - last_called > 500 THEN 1 ELSE 0)
          /\ (pc # "idle") => captures' = captures
          /\ (pc \in {"decode", "checksum"}) => (pc' # "capture" /\ ~held')
          /\ (pc = "decode" /\ pc' # pc /\ Len(pulses) < 80) =>
                 (pc' = "idle" /\ result' = "insufficient")
          /\ (pc = "checksum" /\ pc' # pc /\ ~SumMatches(bites)) =>
                 (pc' = "idle" /\ result' = "checksum")]_vars

\* a non-throttled call has ended in an error after its single capture
C18_Witness ==
    /\ AttemptDone
    /\ result \in Errors
    /\ captures = 1

\* C19: the first measure() call on a new decoder is never throttled: whatever
\* the clock shows, it performs a trigger-and-capture attempt.
C19_FirstCallNotThrottled ==
    [][(AnyCall /\ result = "none") => (pc' = "capture" /\ captures' = 1)]_vars

\* C20: every decoded byte lies in 0..255; on a DHT22 the stored humidity and
\* temperature, in tenths, lie in 0..65535; the temperature is never negative,
\* the top bit of bytes[2] counting as magnitude (32768 tenths).
C20_Ranges ==
    /\ (Len(bites) = 5) => \A k \in 1..5 : bites[k] \in 0..255
    /\ (humidity # None /\ ~dht11) =>
          /\ humidity[1] \in 0..65535 /\ humidity[2] = 10
          /\ temperature[1] \in 0..65535 /\ temperature[2] = 10
    /\ (temperature # None) => temperature[1] >= 0
    /\ (Len(bites) = 5 /\ pc = "idle" /\ ~dht11 /\ bites[3] >= 128) => temperature[1] >= 32768

\* a DHT22 reading whose bytes[2] has its top bit set
C20_Witness ==
    /\ AttemptDone
    /\ ~dht11
    /\ bites[3] = 128
    /\ temperature = <<32770, 10>>

====
